---------------------------- MODULE Spec2Model ----------------------------
(***************************************************************************)
(* String Analyzer Service (src/index.js): an Express application over an  *)
(* in-memory Map of analysed strings, and its helpers analyzeString,       *)
(* parseNaturalLanguage, applyFilters and computeHash.                     *)
(*                                                                         *)
(* A JavaScript string is a sequence of UTF-16 code units and is written   *)
(* here as a TLA+ string, one character per code unit.  Two characters     *)
(* stand for code units that have no ASCII form:                           *)
(*     "^"  the high surrogate U+D83D                                      *)
(*     "~"  the low surrogate  U+DE00   ("^~" is U+1F600, one code point)  *)
(* and "?" stands for U+FFFD, the replacement character.                   *)
(*                                                                         *)
(* A JavaScript object with optional properties is a function whose        *)
(* domain is the set of properties that are present; {} is <<>>.           *)
(*                                                                         *)
(* Three specifications:                                                   *)
(*   Spec         the server: requests go through the router               *)
(*   HandlerSpec  the route handlers, each invoked on its own              *)
(*   FnSpec       the exported helpers, called on bounded inputs           *)
(***************************************************************************)
EXTENDS Integers, Sequences, FiniteSets, TLC

VARIABLES
    stringsDatabase,  \* the Map, as the sequence of its values in insertion order
    now,              \* the clock read by new Date()
    request,          \* the request (or helper call) being answered
    response,         \* its reply (or returned value)
    applied           \* the arguments of the applyFilters call it made, if any

vars == <<stringsDatabase, now, request, response, applied>>

---------------------------------------------------------------------------
(* Bounds *)

MaxLen == 3        \* longest generated input of analyzeString
MaxFrags == 2      \* most fragments in a generated phrase
MaxRecords == 2    \* longest record sequence handed to applyFilters directly
MaxNow == 1        \* last clock tick

---------------------------------------------------------------------------
(* JavaScript strings *)

CharAt(s, i) == SubSeq(s, i, i)

UpperAZ == "ABCDEFGHIJKLMNOPQRSTUVWXYZ"
LowerAZ == "abcdefghijklmnopqrstuvwxyz"
Digits == "0123456789"

\* the position of character c in alphabet, 0 when it is not there
IndexIn(c, alphabet) ==
    IF \E i \in 1..Len(alphabet) : CharAt(alphabet, i) = c
    THEN CHOOSE i \in 1..Len(alphabet) : CharAt(alphabet, i) = c
    ELSE 0

IsLower(c) == IndexIn(c, LowerAZ) > 0
IsDigit(c) == IndexIn(c, Digits) > 0
IsHighSurrogate(c) == c = "^"
IsLowSurrogate(c) == c = "~"
WhiteSpace == {" ", "\t", "\n"}

toLowerCaseChar(c) ==
    LET i == IndexIn(c, UpperAZ) IN IF i > 0 THEN CharAt(LowerAZ, i) ELSE c

RECURSIVE toLowerCase(_)
toLowerCase(s) ==
    IF Len(s) = 0 THEN ""
    ELSE toLowerCaseChar(Head(s)) \o toLowerCase(Tail(s))

\* s.startsWith(sub, i), positions from 1
StartsAt(s, sub, i) ==
    /\ i + Len(sub) - 1 <= Len(s)
    /\ SubSeq(s, i, i + Len(sub) - 1) = sub

includes(s, sub) == \E i \in 1..(Len(s) + 1) : StartsAt(s, sub, i)

RECURSIVE reverse(_)
reverse(s) == IF Len(s) = 0 THEN "" ELSE reverse(Tail(s)) \o Head(s)

\* a replace that leaves white space in place
RECURSIVE stripNonAlnumKeepSpace(_)
stripNonAlnumKeepSpace(s) ==
    IF Len(s) = 0 THEN ""
    ELSE (IF IsLower(Head(s)) \/ IsDigit(Head(s)) \/ Head(s) \in WhiteSpace
          THEN Head(s) ELSE "")
         \o stripNonAlnumKeepSpace(Tail(s))

\* s.replace(/[^a-z0-9]/g, "")
RECURSIVE stripNonAlnum(_)
stripNonAlnum(s) ==
    IF Len(s) = 0 THEN ""
    ELSE (IF IsLower(Head(s)) \/ IsDigit(Head(s)) THEN Head(s) ELSE "")
         \o stripNonAlnum(Tail(s))

\* the string iterator: the code points of s, a surrogate pair being one element
RECURSIVE codePoints(_)
codePoints(s) ==
    IF Len(s) = 0 THEN <<>>
    ELSE IF Len(s) >= 2 /\ IsHighSurrogate(CharAt(s, 1)) /\ IsLowSurrogate(CharAt(s, 2))
         THEN <<SubSeq(s, 1, 2)>> \o codePoints(SubSeq(s, 3, Len(s)))
         ELSE <<Head(s)>> \o codePoints(Tail(s))

\* s.trim()
RECURSIVE trimStart(_)
trimStart(s) ==
    IF Len(s) > 0 /\ Head(s) \in WhiteSpace THEN trimStart(Tail(s)) ELSE s

trim(s) == reverse(trimStart(reverse(trimStart(s))))

\* s.split(/\s+/): the pieces between maximal runs of white space
RECURSIVE splitOnSpace(_, _, _)
splitOnSpace(s, piece, inRun) ==
    IF Len(s) = 0 THEN <<piece>>
    ELSE IF Head(s) \in WhiteSpace
         THEN IF inRun THEN splitOnSpace(Tail(s), piece, TRUE)
              ELSE <<piece>> \o splitOnSpace(Tail(s), "", TRUE)
         ELSE splitOnSpace(Tail(s), piece \o Head(s), FALSE)

split(s) == splitOnSpace(s, "", FALSE)

\* the value of a run of decimal digits, as parseInt reads it
RECURSIVE digitsValue(_, _)
digitsValue(s, acc) ==
    IF Len(s) = 0 THEN acc
    ELSE digitsValue(Tail(s), 10 * acc + (IndexIn(Head(s), Digits) - 1))

\* the longest run of digits at the start of s
RECURSIVE digitPrefix(_)
digitPrefix(s) ==
    IF Len(s) > 0 /\ IsDigit(Head(s)) THEN Head(s) \o digitPrefix(Tail(s)) ELSE ""

\* parseInt(s): <<n>>, or <<>> for NaN
parseInt(s) ==
    LET t == trimStart(s)
        neg == Len(t) > 0 /\ Head(t) = "-"
        u == IF Len(t) > 0 /\ Head(t) \in {"-", "+"} THEN Tail(t) ELSE t
        d == digitPrefix(u)
    IN  IF Len(d) = 0 THEN <<>>
        ELSE <<IF neg THEN 0 - digitsValue(d, 0) ELSE digitsValue(d, 0)>>

isNaN(v) == Len(v) = 0

---------------------------------------------------------------------------
(* JavaScript objects with optional properties *)

Has(obj, key) == key \in DOMAIN obj

Put(obj, key, val) ==
    [k \in (DOMAIN obj) \cup {key} |-> IF k = key THEN val ELSE obj[k]]

---------------------------------------------------------------------------
(* Helpers (src/index.js, 317-454) *)

\* Buffer encoding of a string as UTF-8: a lone surrogate becomes U+FFFD
RECURSIVE toUTF8(_)
toUTF8(s) ==
    IF Len(s) = 0 THEN ""
    ELSE IF Len(s) >= 2 /\ IsHighSurrogate(CharAt(s, 1)) /\ IsLowSurrogate(CharAt(s, 2))
         THEN SubSeq(s, 1, 2) \o toUTF8(SubSeq(s, 3, Len(s)))
         ELSE (IF IsHighSurrogate(Head(s)) \/ IsLowSurrogate(Head(s)) THEN "?" ELSE Head(s))
              \o toUTF8(Tail(s))

\* SHA-256 of the UTF-8 bytes; the digest is taken to be collision free, so
\* it is written as the bytes it was computed from
computeHash(str) == "sha256:" \o toUTF8(str)

analyzeString(value) ==
    LET length == Len(value)
        cleanStr == stripNonAlnum(toLowerCase(value))
        is_palindrome == cleanStr = reverse(cleanStr)
        chars == codePoints(value)
        unique_characters == Cardinality({chars[i] : i \in 1..Len(chars)})
        word_count == Len(SelectSeq(split(trim(value)), LAMBDA word : Len(word) > 0))
        sha256_hash == computeHash(value)
        character_frequency_map ==
            [char \in {chars[i] : i \in 1..Len(chars)} |->
                Cardinality({i \in 1..Len(chars) : chars[i] = char})]
    IN  [length |-> length,
         is_palindrome |-> is_palindrome,
         unique_characters |-> unique_characters,
         word_count |-> word_count,
         sha256_hash |-> sha256_hash,
         character_frequency_map |-> character_frequency_map]

Min(S) == CHOOSE x \in S : \A y \in S : x <= y

\* s.match(/<literal>(\d+)/): <<>> when nothing matches, else <<group 1>> of
\* the leftmost match (\d+ is greedy)
matchDigitsAfter(s, literal) ==
    LET rest(i) == SubSeq(s, i + Len(literal), Len(s))
        starts == {i \in 1..Len(s) :
                      StartsAt(s, literal, i) /\ Len(digitPrefix(rest(i))) > 0}
    IN  IF starts = {} THEN <<>> ELSE <<digitPrefix(rest(Min(starts)))>>

\* the alternatives of /contain(?:s|ing)? (?:the letter |the character )?([a-z])/
\* in the order the matcher tries them at one position
ContainSuffixes == <<"s", "ing", "">>
ContainArticles == <<"the letter ", "the character ", "">>
ContainPrefixes ==
    [k \in 1..9 |-> "contain" \o ContainSuffixes[((k - 1) \div 3) + 1] \o " "
                               \o ContainArticles[((k - 1) % 3) + 1]]

\* s.match(/contain(?:s|ing)? (?:the letter |the character )?([a-z])/):
\* <<>> when nothing matches, else <<group 1>> of the leftmost match
matchContains(s) ==
    LET ok(i, k) == /\ StartsAt(s, ContainPrefixes[k], i)
                    /\ i + Len(ContainPrefixes[k]) <= Len(s)
                    /\ IsLower(CharAt(s, i + Len(ContainPrefixes[k])))
        starts == {i \in 1..Len(s) : StartsAt(s, "contain", i) /\ \E k \in 1..9 : ok(i, k)}
    IN  IF starts = {} THEN <<>>
        ELSE LET i == Min(starts)
                 k == Min({j \in 1..9 : ok(i, j)})
             IN  <<CharAt(s, i + Len(ContainPrefixes[k]))>>

\* obj after the assignments obj.k = props[k], for every k that props holds
Assign(obj, props) ==
    [k \in (DOMAIN obj) \cup (DOMAIN props) |-> IF k \in DOMAIN props THEN props[k] ELSE obj[k]]

\* Palindrome detection
palindromeRule(lowerQuery) ==
    IF includes(lowerQuery, "palindrome") \/ includes(lowerQuery, "palindromic")
    THEN [is_palindrome |-> TRUE]
    ELSE <<>>

\* Word count detection
wordCountRule(lowerQuery) ==
    IF includes(lowerQuery, "single word") THEN [word_count |-> 1]
    ELSE IF includes(lowerQuery, "two word") \/ includes(lowerQuery, "2 word")
         THEN [word_count |-> 2]
    ELSE IF includes(lowerQuery, "three word") \/ includes(lowerQuery, "3 word")
         THEN [word_count |-> 3]
    ELSE <<>>

\* longerThanRule without the + 1
longerThanRuleInclusive(longerThanMatch) ==
    IF Len(longerThanMatch) > 0
    THEN [min_length |-> parseInt(longerThanMatch[1])[1]]
    ELSE <<>>

\* Length detection
longerThanRule(longerThanMatch) ==
    IF Len(longerThanMatch) > 0
    THEN [min_length |-> parseInt(longerThanMatch[1])[1] + 1]
    ELSE <<>>

shorterThanRule(shorterThanMatch) ==
    IF Len(shorterThanMatch) > 0
    THEN [max_length |-> parseInt(shorterThanMatch[1])[1] - 1]
    ELSE <<>>

\* Character containment
containsRule(containsMatch) ==
    IF Len(containsMatch) > 0 THEN [contains_character |-> containsMatch[1]] ELSE <<>>

\* Vowel detection
vowelRule(lowerQuery) ==
    IF includes(lowerQuery, "first vowel") THEN [contains_character |-> "a"]
    ELSE IF includes(lowerQuery, "second vowel") THEN [contains_character |-> "e"]
    ELSE <<>>

\* parseLowered with the vowel detection placed before the character containment
parseLoweredVowelFirst(lowerQuery) ==
    Assign(Assign(Assign(Assign(Assign(Assign(<<>>,
        palindromeRule(lowerQuery)),
        wordCountRule(lowerQuery)),
        longerThanRule(matchDigitsAfter(lowerQuery, "longer than "))),
        shorterThanRule(matchDigitsAfter(lowerQuery, "shorter than "))),
        vowelRule(lowerQuery)),
        containsRule(matchContains(lowerQuery)))

\* the statements of parseNaturalLanguage on the lowercased query, in order
parseLowered(lowerQuery) ==
    Assign(Assign(Assign(Assign(Assign(Assign(<<>>,
        palindromeRule(lowerQuery)),
        wordCountRule(lowerQuery)),
        longerThanRule(matchDigitsAfter(lowerQuery, "longer than "))),
        shorterThanRule(matchDigitsAfter(lowerQuery, "shorter than "))),
        containsRule(matchContains(lowerQuery))),
        vowelRule(lowerQuery))

parseNaturalLanguage(query) == parseLowered(toLowerCase(query))

\* passesFilters with min_length taken as an exclusive bound
passesFiltersExclusiveMin(item, filters) ==
    IF Has(filters, "is_palindrome")
       /\ item.properties.is_palindrome # filters["is_palindrome"] THEN FALSE
    ELSE IF Has(filters, "min_length")
            /\ item.properties.length <= filters["min_length"] THEN FALSE
    ELSE IF Has(filters, "max_length")
            /\ item.properties.length > filters["max_length"] THEN FALSE
    ELSE IF Has(filters, "word_count")
            /\ item.properties.word_count # filters["word_count"] THEN FALSE
    ELSE IF Has(filters, "contains_character")
            /\ ~includes(toLowerCase(item.value),
                         toLowerCase(filters["contains_character"])) THEN FALSE
    ELSE TRUE

\* the callback of strings.filter in applyFilters
passesFilters(item, filters) ==
    IF Has(filters, "is_palindrome")
       /\ item.properties.is_palindrome # filters["is_palindrome"] THEN FALSE
    ELSE IF Has(filters, "min_length")
            /\ item.properties.length < filters["min_length"] THEN FALSE
    ELSE IF Has(filters, "max_length")
            /\ item.properties.length > filters["max_length"] THEN FALSE
    ELSE IF Has(filters, "word_count")
            /\ item.properties.word_count # filters["word_count"] THEN FALSE
    ELSE IF Has(filters, "contains_character")
            /\ ~includes(toLowerCase(item.value),
                         toLowerCase(filters["contains_character"])) THEN FALSE
    ELSE TRUE

applyFilters(strings, filters) ==
    SelectSeq(strings, LAMBDA item : passesFilters(item, filters))

---------------------------------------------------------------------------
(* The Map stringsDatabase (src/index.js, 25), values in insertion order *)

MapHas(db, id) == \E i \in 1..Len(db) : db[i].id = id

\* Map.get: <<>> for undefined, else <<the value>>
MapGet(db, id) == SelectSeq(db, LAMBDA item : item.id = id)

\* Map.set: a new key goes last, an existing key keeps its place
MapSet(db, id, item) ==
    IF MapHas(db, id)
    THEN [i \in 1..Len(db) |-> IF db[i].id = id THEN item ELSE db[i]]
    ELSE Append(db, item)

MapDelete(db, id) == SelectSeq(db, LAMBDA item : item.id # id)

---------------------------------------------------------------------------
(* JSON values of a request body *)

JsonString(s) == [type |-> "string", str |-> s]
JsonNumber(n) == [type |-> "number", num |-> n]
JsonBoolean(b) == [type |-> "boolean", bool |-> b]
JsonNull == [type |-> "null"]
JsonObject == [type |-> "object"]
JsonArray == [type |-> "array"]

\* !value, for the value of a property that may be absent (undefined)
Falsy(obj, key) ==
    \/ ~Has(obj, key)
    \/ obj[key].type = "null"
    \/ obj[key].type = "boolean" /\ ~obj[key].bool
    \/ obj[key].type = "number" /\ obj[key].num = 0
    \/ obj[key].type = "string" /\ Len(obj[key].str) = 0

IsEmptyString(obj, key) ==
    Has(obj, key) /\ obj[key].type = "string" /\ Len(obj[key].str) = 0

---------------------------------------------------------------------------
(* Route handlers (src/index.js, 27-301).  A handler maps the request, the *)
(* Map and the clock to its reply, the Map it leaves and the arguments of  *)
(* the applyFilters call it made (<<>> when it made none).                 *)

Reply(status, body, db, call) ==
    [status |-> status, body |-> body, db |-> db, applied |-> call]

ErrorBody(error, message) == [error |-> error, message |-> message]

\* createString without the check that the string already exists
createStringOverwrite(req, db, t) ==
    IF Falsy(req.body, "value") /\ ~IsEmptyString(req.body, "value")
    THEN Reply(400, ErrorBody("Bad Request", "Missing \"value\" field in request body"),
               db, <<>>)
    ELSE IF req.body["value"].type # "string"
    THEN Reply(422, ErrorBody("Unprocessable Entity",
                              "Invalid data type for \"value\" (must be string)"),
               db, <<>>)
    ELSE LET value == req.body["value"].str
             properties == analyzeString(value)
             id == properties.sha256_hash
             stringData == [id |-> id, value |-> value, properties |-> properties,
                            created_at |-> t]
         IN  Reply(201, stringData, MapSet(db, id, stringData), <<>>)

\* 1. POST /strings
createString(req, db, t) ==
    IF Falsy(req.body, "value") /\ ~IsEmptyString(req.body, "value")
    THEN Reply(400, ErrorBody("Bad Request", "Missing \"value\" field in request body"),
               db, <<>>)
    ELSE IF req.body["value"].type # "string"
    THEN Reply(422, ErrorBody("Unprocessable Entity",
                              "Invalid data type for \"value\" (must be string)"),
               db, <<>>)
    ELSE LET value == req.body["value"].str
             properties == analyzeString(value)
             id == properties.sha256_hash
             stringData == [id |-> id, value |-> value, properties |-> properties,
                            created_at |-> t]
         IN  IF MapHas(db, id)
             THEN Reply(409, ErrorBody("Conflict", "String already exists in the system"),
                        db, <<>>)
             ELSE Reply(201, stringData, MapSet(db, id, stringData), <<>>)

\* 2. GET /strings/:string_value
getString(req, db, t) ==
    LET hash == computeHash(req.params["string_value"])
        stringData == MapGet(db, hash)
    IN  IF Len(stringData) = 0
        THEN Reply(404, ErrorBody("Not Found", "String does not exist in the system"),
                   db, <<>>)
        ELSE Reply(200, stringData[1], db, <<>>)

InvalidParam(name, must) ==
    ErrorBody("Bad Request", "Invalid value for " \o name \o " (must be " \o must \o ")")

\* the value a valid numeric parameter contributes to filters
numberParam(q, name) ==
    IF Has(q, name) THEN Put(<<>>, name, parseInt(q[name])[1]) ELSE <<>>

\* isNaN(value) || value < 0, for a numeric parameter that is present
BadNumber(value) == isNaN(value) \/ value[1] < 0

getStringsReply(db, filters, filteredStrings) ==
    Reply(200,
          [data |-> filteredStrings, count |-> Len(filteredStrings),
           filters_applied |-> filters],
          db, <<[strings |-> db, filters |-> filters]>>)

getStringsFiltered(db, filters) ==
    getStringsReply(db, filters, applyFilters(db, filters))

\* 3. GET /strings
getStrings(req, db, t) ==
    IF /\ Has(req.query, "is_palindrome")
       /\ toLowerCase(req.query["is_palindrome"]) \notin {"true", "false"}
    THEN Reply(400, InvalidParam("is_palindrome", "true or false"), db, <<>>)
    ELSE IF Has(req.query, "min_length") /\ BadNumber(parseInt(req.query["min_length"]))
    THEN Reply(400, InvalidParam("min_length", "non-negative integer"), db, <<>>)
    ELSE IF Has(req.query, "max_length") /\ BadNumber(parseInt(req.query["max_length"]))
    THEN Reply(400, InvalidParam("max_length", "non-negative integer"), db, <<>>)
    ELSE IF Has(req.query, "word_count") /\ BadNumber(parseInt(req.query["word_count"]))
    THEN Reply(400, InvalidParam("word_count", "non-negative integer"), db, <<>>)
    ELSE IF Has(req.query, "contains_character") /\ Len(req.query["contains_character"]) # 1
    THEN Reply(400, InvalidParam("contains_character", "single character"), db, <<>>)
    ELSE getStringsFiltered(db,
            Assign(Assign(Assign(Assign(Assign(<<>>,
                IF Has(req.query, "is_palindrome")
                THEN [is_palindrome |-> toLowerCase(req.query["is_palindrome"]) = "true"]
                ELSE <<>>),
                numberParam(req.query, "min_length")),
                numberParam(req.query, "max_length")),
                numberParam(req.query, "word_count")),
                IF Has(req.query, "contains_character")
                THEN [contains_character |-> req.query["contains_character"]]
                ELSE <<>>))

naturalLanguageReply(query, db, parsedFilters, filteredStrings) ==
    Reply(200,
          [data |-> filteredStrings, count |-> Len(filteredStrings),
           interpreted_query |-> [original |-> query, parsed_filters |-> parsedFilters]],
          db, <<[strings |-> db, filters |-> parsedFilters]>>)

\* naturalLanguageParsed without the check for an empty parsedFilters
naturalLanguageParsedUnchecked(query, db, parsedFilters) ==
    naturalLanguageReply(query, db, parsedFilters, applyFilters(db, parsedFilters))

naturalLanguageParsed(query, db, parsedFilters) ==
    IF DOMAIN parsedFilters = {}
    THEN Reply(400, ErrorBody("Bad Request", "Unable to parse natural language query"),
               db, <<>>)
    ELSE naturalLanguageReply(query, db, parsedFilters, applyFilters(db, parsedFilters))

\* 4. GET /strings/filter-by-natural-language
filterByNaturalLanguage(req, db, t) ==
    IF ~Has(req.query, "query") \/ Len(req.query["query"]) = 0
    THEN Reply(400, ErrorBody("Bad Request", "Missing \"query\" parameter"), db, <<>>)
    ELSE naturalLanguageParsed(req.query["query"], db,
                               parseNaturalLanguage(req.query["query"]))

\* 5. DELETE /strings/:string_value
deleteString(req, db, t) ==
    LET hash == computeHash(req.params["string_value"])
    IN  IF ~MapHas(db, hash)
        THEN Reply(404, ErrorBody("Not Found", "String does not exist in the system"),
                   db, <<>>)
        ELSE Reply(204, <<>>, MapDelete(db, hash), <<>>)

\* GET /health
health(req, db, t) ==
    Reply(200, [status |-> "healthy", timestamp |-> t, strings_count |-> Len(db)],
          db, <<>>)

\* GET /
root(req, db, t) ==
    Reply(200, [message |-> "Backend Wizards - Stage 1: String Analyzer API",
                timestamp |-> t],
          db, <<>>)

\* the 404 handler
notFound(req, db, t) ==
    Reply(404, ErrorBody("Not Found", "Endpoint not found"), db, <<>>)

---------------------------------------------------------------------------
(* The router: the routes in the order app.post/app.get/app.delete         *)
(* registered them; a request goes to the first route that matches it.     *)
(* A path is the sequence of its decoded, non-empty segments.              *)

Routes == <<
    [method |-> "POST",   path |-> <<"strings">>,                  handler |-> "createString"],
    [method |-> "GET",    path |-> <<"strings", ":string_value">>, handler |-> "getString"],
    [method |-> "GET",    path |-> <<"strings">>,                  handler |-> "getStrings"],
    [method |-> "GET",    path |-> <<"strings", "filter-by-natural-language">>,
                                                     handler |-> "filterByNaturalLanguage"],
    [method |-> "DELETE", path |-> <<"strings", ":string_value">>, handler |-> "deleteString"],
    [method |-> "GET",    path |-> <<"health">>,                   handler |-> "health"],
    [method |-> "GET",    path |-> <<>>,                           handler |-> "root"] >>

IsParam(segment) == Len(segment) > 0 /\ Head(segment) = ":"

MatchesRoute(route, req) ==
    /\ route.method = req.method
    /\ Len(route.path) = Len(req.path)
    /\ \A i \in 1..Len(route.path) :
          IsParam(route.path[i]) \/ route.path[i] = toLowerCase(req.path[i])

\* req.params for a matched route
Params(route, req) ==
    [name \in {Tail(route.path[i]) : i \in {j \in 1..Len(route.path) : IsParam(route.path[j])}}
        |-> req.path[CHOOSE i \in 1..Len(route.path) : route.path[i] = ":" \o name]]

RunHandler(handler, req, db, t) ==
    CASE handler = "createString" -> createString(req, db, t)
      [] handler = "getString" -> getString(req, db, t)
      [] handler = "getStrings" -> getStrings(req, db, t)
      [] handler = "filterByNaturalLanguage" -> filterByNaturalLanguage(req, db, t)
      [] handler = "deleteString" -> deleteString(req, db, t)
      [] handler = "health" -> health(req, db, t)
      [] handler = "root" -> root(req, db, t)
      [] OTHER -> notFound(req, db, t)

\* the handler that answers req: the first matching route's, else the 404 handler
RouteOf(req) ==
    LET hits == {i \in 1..Len(Routes) : MatchesRoute(Routes[i], req)}
    IN  IF hits = {} THEN [method |-> req.method, path |-> <<>>, handler |-> "notFound"]
        ELSE Routes[Min(hits)]

Dispatch(req, db, t) ==
    LET route == RouteOf(req)
    IN  RunHandler(route.handler, [req EXCEPT !.params = Params(route, req)], db, t)

Request(method, path, query, body) ==
    [op |-> "http", method |-> method, path |-> path, query |-> query, body |-> body,
     params |-> <<>>]

---------------------------------------------------------------------------
(* Inputs *)

Alphabet == {"a", "A", "b", " ", ",", "^", "~"}

RECURSIVE StringsUpTo(_)
StringsUpTo(n) ==
    IF n = 0 THEN {""}
    ELSE LET shorter == StringsUpTo(n - 1)
         IN  shorter \cup {s \o c : s \in shorter, c \in Alphabet}

AnalyzerInputs ==
    StringsUpTo(MaxLen)
    \cup {"racecar", "hello", "A man a plan a canal Panama", "  hello   world  ",
          "1a1", "12", "1,1", "A1a", "No 1 on"}

Fragments ==
    {"palindromic ", "Palindrome ", "single word ", "two word ", "2 word ",
     "three word ", "3 word ", "longer than 10 ", "longer than ", "shorter than 5 ",
     "shorter than 0 ", "7", "containing the letter ", "contains the character ",
     "contain ", "z", "hello ", "first vowel ", "second vowel ", "strings "}

RECURSIVE PhrasesOf(_)
PhrasesOf(n) ==
    IF n = 0 THEN {""}
    ELSE {p \o f : p \in PhrasesOf(n - 1), f \in Fragments}

DocumentedPhrases ==
    {"all single word palindromic strings",
     "strings longer than 10 characters",
     "strings containing the letter z",
     "palindromic strings that contain the first vowel",
     "bananas are yellow"}

Phrases == UNION {PhrasesOf(n) : n \in 1..MaxFrags} \cup DocumentedPhrases

\* the record the server stores for value, created at time t
StoredRecord(value, t) ==
    [id |-> computeHash(value), value |-> value, properties |-> analyzeString(value),
     created_at |-> t]

SampleValues == {"", "racecar", "hello", "Level", "Aba", "a b"}

RECURSIVE RecordSeqs(_)
RecordSeqs(n) ==
    IF n = 0 THEN {<<>>}
    ELSE LET shorter == RecordSeqs(n - 1)
         IN  shorter \cup {Append(r, StoredRecord(v, 0)) : r \in shorter, v \in SampleValues}

Optional(key, values) == {<<>>} \cup {Put(<<>>, key, v) : v \in values}

Combine(A, B) == {Assign(a, b) : a \in A, b \in B}

\* well-formed criteria
Criteria ==
    Combine(Combine(Combine(Combine(
        Optional("is_palindrome", BOOLEAN),
        Optional("min_length", {3, 5})),
        Optional("max_length", {3, 5})),
        Optional("word_count", {1, 2})),
        Optional("contains_character", {"a", "L"}))

\* req.query of GET /strings
ExplicitQueries ==
    Combine(Combine(Combine(Combine(
        Optional("is_palindrome", {"true", "FALSE", "yes"}),
        Optional("min_length", {"0", "5", "-1", "abc"})),
        Optional("max_length", {"5", "-2"})),
        Optional("word_count", {"1", "x"})),
        Optional("contains_character", {"a", "ab", ""}))

---------------------------------------------------------------------------
(* State machine *)

Idle == [op |-> "idle"]
NoReply == [status |-> 0]

IsIdle == request = Idle

Init ==
    /\ stringsDatabase = <<>>
    /\ now = 0
    /\ request = Idle
    /\ response = NoReply
    /\ applied = <<>>

\* the reply has been sent; the server waits for the next request
Respond ==
    /\ ~IsIdle
    /\ request' = Idle
    /\ response' = NoReply
    /\ applied' = <<>>
    /\ UNCHANGED <<stringsDatabase, now>>

\* time passes
Tick ==
    /\ IsIdle
    /\ now < MaxNow
    /\ now' = now + 1
    /\ UNCHANGED <<stringsDatabase, request, response, applied>>

\* the request req is answered with reply r
Answer(req, r) ==
    /\ request' = req
    /\ response' = [status |-> r.status, body |-> r.body]
    /\ stringsDatabase' = r.db
    /\ applied' = r.applied
    /\ UNCHANGED now

\* the server takes req through the router
Serve(req) == \E r \in {Dispatch(req, stringsDatabase, now)} : Answer(req, r)

---------------------------------------------------------------------------
(* Spec: the server.  Every request goes through the router. *)

ServerValues == {"", "racecar", "filter-by-natural-language", "^", "~"}

JsonValues ==
    {JsonNumber(0), JsonNumber(7), JsonBoolean(FALSE), JsonBoolean(TRUE),
     JsonNull, JsonObject, JsonArray}
    \cup {JsonString(v) : v \in ServerValues}

PostBodies == {<<>>} \cup {Put(<<>>, "value", j) : j \in JsonValues}

PathValues == {"", "racecar", "filter-by-natural-language"}

\* the path of the URL "/strings/" + encodeURIComponent(v) as the router reads
\* it: a trailing slash is no segment, so the empty string leaves "/strings"
StringPath(v) == IF Len(v) = 0 THEN <<"strings">> ELSE <<"strings", v>>

NaturalLanguageQueries == {<<>>} \cup {Put(<<>>, "query", p) : p \in DocumentedPhrases}

ListQueries ==
    {<<>>, Put(<<>>, "is_palindrome", "true"), Put(<<>>, "min_length", "5"),
     Put(<<>>, "min_length", "-1"), Put(<<>>, "contains_character", "R")}

GetRequests ==
    {Request("GET", StringPath(v), <<>>, <<>>) : v \in PathValues}
    \cup {Request("GET", <<"strings", "filter-by-natural-language">>, q, <<>>) :
              q \in NaturalLanguageQueries}
    \cup {Request("GET", <<"strings">>, q, <<>>) : q \in ListQueries}
    \cup {Request("GET", path, <<>>, <<>>) : path \in {<<"health">>, <<>>, <<"nope">>}}

PostRequest ==
    /\ IsIdle
    /\ \E body \in PostBodies : Serve(Request("POST", <<"strings">>, <<>>, body))

GetRequest ==
    /\ IsIdle
    /\ \E req \in GetRequests : Serve(req)

DeleteRequest ==
    /\ IsIdle
    /\ \E v \in PathValues : Serve(Request("DELETE", StringPath(v), <<>>, <<>>))

Next == Tick \/ PostRequest \/ GetRequest \/ DeleteRequest \/ Respond

Spec == Init /\ [][Next]_vars

---------------------------------------------------------------------------
(* HandlerSpec: each route handler invoked on the request its route        *)
(* describes, as the router does once the route is the one that matches.   *)

HandlerValues == {"racecar", "hello"}

WithParam(req, v) == [req EXCEPT !.params = Put(<<>>, "string_value", v)]

InvokeCreateString ==
    /\ IsIdle
    /\ \E v \in HandlerValues :
               LET req == Request("POST", <<"strings">>, <<>>, Put(<<>>, "value", JsonString(v)))
               IN  \E r \in {createString(req, stringsDatabase, now)} : Answer(req, r)

InvokeDeleteString ==
    /\ IsIdle
    /\ \E v \in HandlerValues :
               LET req == WithParam(Request("DELETE", <<"strings", v>>, <<>>, <<>>), v)
               IN  \E r \in {deleteString(req, stringsDatabase, now)} : Answer(req, r)

InvokeGetStrings ==
    /\ IsIdle
    /\ \E q \in ExplicitQueries :
               LET req == Request("GET", <<"strings">>, q, <<>>)
               IN  \E r \in {getStrings(req, stringsDatabase, now)} : Answer(req, r)

InvokeFilterByNaturalLanguage ==
    /\ IsIdle
    /\ \E q \in {<<>>} \cup {Put(<<>>, "query", p) : p \in Phrases \cup {""}} :
               LET req == Request("GET", <<"strings", "filter-by-natural-language">>, q, <<>>)
               IN  \E r \in {filterByNaturalLanguage(req, stringsDatabase, now)} : Answer(req, r)

HandlerNext ==
    \/ InvokeCreateString
    \/ InvokeDeleteString
    \/ InvokeGetStrings
    \/ InvokeFilterByNaturalLanguage
    \/ Respond

HandlerSpec == Init /\ [][HandlerNext]_vars

---------------------------------------------------------------------------
(* FnSpec: the exported helpers, called on inputs drawn from bounded sets. *)

Call(req, result) ==
    /\ request' = req
    /\ response' = [returned |-> result]
    /\ UNCHANGED <<stringsDatabase, now, applied>>

CallAnalyzeString ==
    /\ IsIdle
    /\ \E value \in AnalyzerInputs :
               Call([op |-> "analyzeString", value |-> value], analyzeString(value))

CallParseNaturalLanguage ==
    /\ IsIdle
    /\ \E query \in Phrases :
               Call([op |-> "parseNaturalLanguage", query |-> query], parseNaturalLanguage(query))

CallApplyFilters ==
    /\ IsIdle
    /\ \E strings \in RecordSeqs(MaxRecords), filters \in Criteria :
               Call([op |-> "applyFilters", strings |-> strings, filters |-> filters],
                    applyFilters(strings, filters))

FnNext ==
    \/ CallAnalyzeString
    \/ CallParseNaturalLanguage
    \/ CallApplyFilters
    \/ Respond

FnSpec == Init /\ [][FnNext]_vars

---------------------------------------------------------------------------
(* Claims *)

IsCall(op) == request.op = op

\* item satisfies every criterion that c holds
Satisfies(item, c) ==
    /\ Has(c, "is_palindrome") => item.properties.is_palindrome = c["is_palindrome"]
    /\ Has(c, "min_length") => item.properties.length >= c["min_length"]
    /\ Has(c, "max_length") => item.properties.length <= c["max_length"]
    /\ Has(c, "word_count") => item.properties.word_count = c["word_count"]
    /\ Has(c, "contains_character") =>
          \E i \in 1..Len(item.value) :
              toLowerCaseChar(CharAt(item.value, i)) = toLowerCaseChar(c["contains_character"])

\* out holds exactly the elements of inp at the positions in keep, in order
IsSelection(out, inp, keep) ==
    /\ Len(out) = Cardinality(keep)
    /\ \A i \in keep : out[Cardinality({j \in keep : j <= i})] = inp[i]

PalindromeMin5 == [is_palindrome |-> TRUE, min_length |-> 5]

\* C1: applyFilters returns exactly the records that satisfy every present
\* criterion, in their input order; with no criteria the result is the input;
\* the result for {is_palindrome:true, min_length:5} is the result for
\* {is_palindrome:true} restricted to the fingerprints in the result for
\* {min_length:5}.
C1_FilterIsConjunction ==
    IsCall("applyFilters") =>
        LET strings == request.strings
            filters == request.filters
            result == response.returned
            alone1 == applyFilters(strings, [is_palindrome |-> TRUE])
            alone2 == applyFilters(strings, [min_length |-> 5])
        IN  /\ IsSelection(result, strings,
                           {i \in 1..Len(strings) : Satisfies(strings[i], filters)})
            /\ DOMAIN filters = {} => result = strings
            /\ filters = PalindromeMin5 =>
                  result = SelectSeq(alone1,
                               LAMBDA item : \E k \in 1..Len(alone2) : alone2[k].id = item.id)

C1_Witness ==
    /\ IsCall("applyFilters")
    /\ request.filters = PalindromeMin5
    /\ Len(request.strings) = 2
    /\ request.strings[1].value = "hello"
    /\ response.returned = <<request.strings[2]>>

RECURSIVE SumOf(_)
SumOf(f) ==
    IF DOMAIN f = {} THEN 0
    ELSE LET k == CHOOSE x \in DOMAIN f : TRUE
         IN  f[k] + SumOf([x \in (DOMAIN f) \ {k} |-> f[x]])

\* C2: analyzeString(s).length is the number of elements (code units) of s,
\* and the counts of character_frequency_map sum to length.
C2_CountsSumToLength ==
    IsCall("analyzeString") =>
        /\ response.returned.length = Len(request.value)
        /\ SumOf(response.returned.character_frequency_map) = response.returned.length

IsCreate(req) ==
    /\ req.op = "http"
    /\ req.method = "POST"
    /\ req.path = <<"strings">>

HasStringValue(req) == Has(req.body, "value") /\ req.body["value"].type = "string"

Stored(db, value) == \E i \in 1..Len(db) : db[i].value = value

OneRecordPerContent ==
    /\ \A i, j \in 1..Len(stringsDatabase) :
          i # j => /\ stringsDatabase[i].value # stringsDatabase[j].value
                   /\ stringsDatabase[i].id # stringsDatabase[j].id
    /\ \A i \in 1..Len(stringsDatabase) :
          stringsDatabase[i].id = computeHash(stringsDatabase[i].value)

DuplicateRejected ==
    (/\ IsIdle
     /\ IsCreate(request')
     /\ HasStringValue(request')
     /\ Stored(stringsDatabase, request'.body["value"].str))
    => /\ response'.status = 409
       /\ stringsDatabase' = stringsDatabase

\* C3: the store holds at most one record per distinct content, keyed by the
\* content's fingerprint; a POST /strings of a stored value is answered 409
\* and leaves the store, the record and its created_at unchanged.
C3_OnePerContent == []OneRecordPerContent /\ [][DuplicateRejected]_vars

C3_Witness ==
    /\ IsCreate(request)
    /\ response.status = 409
    /\ \E i \in 1..Len(stringsDatabase) :
          /\ stringsDatabase[i].value = request.body["value"].str
          /\ stringsDatabase[i].created_at < now

IsNaturalLanguageRequest(req) ==
    /\ req.op = "http"
    /\ req.method = "GET"
    /\ req.path = <<"strings", "filter-by-natural-language">>
    /\ Has(req.query, "query")
    /\ Len(req.query["query"]) > 0

\* C4: GET /strings/filter-by-natural-language with a query the interpreter
\* recognizes is answered 200 with data = applyFilters(all stored records,
\* parseNaturalLanguage(query)) and parsed_filters = the parsed criteria.
C4_NaturalLanguageAnswered ==
    (/\ IsNaturalLanguageRequest(request)
     /\ DOMAIN parseNaturalLanguage(request.query["query"]) # {})
    => /\ response.status = 200
       /\ Has(response.body, "data")
       /\ response.body.data =
              applyFilters(stringsDatabase, parseNaturalLanguage(request.query["query"]))
       /\ response.body.interpreted_query.parsed_filters =
              parseNaturalLanguage(request.query["query"])

\* literal is in l at position i and a decimal digit follows it
NumberFollows(l, literal, i) ==
    /\ StartsAt(l, literal, i)
    /\ i + Len(literal) <= Len(l)
    /\ IsDigit(CharAt(l, i + Len(literal)))

\* a containment keyword, with or without its article
ContainmentHeads ==
    {keyword \o article : keyword \in {"contain ", "contains ", "containing "},
                          article \in {"", "the letter ", "the character "}}

\* the positions of the letters that follow a containment keyword, with or
\* without its article, found in l at position i
LettersAfter(l, i) ==
    IF ~StartsAt(l, "contain", i) THEN {}
    ELSE {at \in {i + Len(h) : h \in {g \in ContainmentHeads : StartsAt(l, g, i)}} :
             at <= Len(l) /\ IsLower(CharAt(l, at))}

\* one of the recognized patterns occurs in the lowercased phrase l
Recognized(l) ==
    \/ \E w \in {"palindrome", "palindromic", "single word", "two word", "2 word",
                 "three word", "3 word", "first vowel", "second vowel"} : includes(l, w)
    \/ \E i \in 1..Len(l) : NumberFollows(l, "longer than ", i)
    \/ \E i \in 1..Len(l) : NumberFollows(l, "shorter than ", i)
    \/ \E i \in 1..Len(l) : LettersAfter(l, i) # {}

\* C5: parseNaturalLanguage returns an empty criteria set exactly when no
\* recognized pattern occurs in the lowercased phrase, and the handler
\* answers such a phrase 400 'Unable to parse' without running the filter.
C5_UnrecognizedIsRejected ==
    IsNaturalLanguageRequest(request) =>
        LET query == request.query["query"]
            unrecognized == ~Recognized(toLowerCase(query))
        IN  /\ (DOMAIN parseNaturalLanguage(query) = {}) <=> unrecognized
            /\ unrecognized =>
                  /\ response.status = 400
                  /\ response.body.message = "Unable to parse natural language query"
                  /\ applied = <<>>

C5_Witness ==
    /\ IsNaturalLanguageRequest(request)
    /\ request.query["query"] = "bananas are yellow"
    /\ Len(stringsDatabase) = 2
    /\ response.status = 400
    /\ applied = <<>>

\* C6: every criteria set handed to applyFilters, from explicit query
\* parameters or from a phrase, has min_length, max_length and word_count
\* (when present) as non-negative integers.
C6_CriteriaNonNegative ==
    applied # <<>> =>
        \A k \in {"min_length", "max_length", "word_count"} \cap DOMAIN applied[1].filters :
            applied[1].filters[k] \in Nat

\* the positions of l where literal is followed by a decimal integer
NumbersAfter(l, literal) == {i \in 1..Len(l) : NumberFollows(l, literal, i)}

\* the decimal integer N that follows literal at position i of l
NumberAt(l, literal, i) ==
    LET from == i + Len(literal)
        to == CHOOSE j \in from..Len(l) :
                  /\ \A k \in from..j : IsDigit(CharAt(l, k))
                  /\ j = Len(l) \/ ~IsDigit(CharAt(l, j + 1))
    IN  digitsValue(SubSeq(l, from, to), 0)

\* C7: a phrase with 'longer than N' gets min_length = N + 1 and one with
\* 'shorter than N' gets max_length = N - 1 (N the first such integer of the
\* phrase), each independently of the other; without the phrase the field is
\* absent.
C7_LengthRules ==
    IsCall("parseNaturalLanguage") =>
        LET l == toLowerCase(request.query)
            result == response.returned
            longer == NumbersAfter(l, "longer than ")
            shorter == NumbersAfter(l, "shorter than ")
        IN  /\ Has(result, "min_length") <=> longer # {}
            /\ longer # {} =>
                  result["min_length"] = NumberAt(l, "longer than ", Min(longer)) + 1
            /\ Has(result, "max_length") <=> shorter # {}
            /\ shorter # {} =>
                  result["max_length"] = NumberAt(l, "shorter than ", Min(shorter)) - 1

C7_Witness ==
    /\ IsCall("parseNaturalLanguage")
    /\ request.query = "longer than 10 shorter than 5 "
    /\ response.returned = [min_length |-> 11, max_length |-> 4]

HasVowelPhrase(l) == includes(l, "first vowel") \/ includes(l, "second vowel")

\* C8: the letter-containment rule sets contains_character only to a single
\* letter named after contain/contains/containing (with or without 'the
\* letter ' or 'the character '); a longer word there gives no
\* contains_character.
C8_SingleLetterOnly ==
    (IsCall("parseNaturalLanguage") /\ ~HasVowelPhrase(toLowerCase(request.query))) =>
        LET l == toLowerCase(request.query)
            result == response.returned
        IN  Has(result, "contains_character") =>
                \E i \in 1..Len(l) : \E at \in LettersAfter(l, i) :
                    /\ at = Len(l) \/ ~IsLower(CharAt(l, at + 1))
                    /\ result["contains_character"] = CharAt(l, at)

FirstVowelPhrase == "palindromic strings that contain the first vowel"

\* C9: the vowel rule wins over the letter-containment rule: a phrase with
\* 'first vowel' has contains_character = 'a', otherwise one with 'second
\* vowel' has 'e', whatever letter a containment phrase named; 'palindromic
\* strings that contain the first vowel' yields exactly
\* {is_palindrome:true, contains_character:'a'}.
C9_VowelWins ==
    IsCall("parseNaturalLanguage") =>
        LET l == toLowerCase(request.query)
            result == response.returned
        IN  /\ includes(l, "first vowel") =>
                  Has(result, "contains_character") /\ result["contains_character"] = "a"
            /\ (~includes(l, "first vowel") /\ includes(l, "second vowel")) =>
                  Has(result, "contains_character") /\ result["contains_character"] = "e"
            /\ request.query = FirstVowelPhrase =>
                  result = [is_palindrome |-> TRUE, contains_character |-> "a"]

C9_Witness ==
    /\ IsCall("parseNaturalLanguage")
    /\ request.query = FirstVowelPhrase
    /\ matchContains(toLowerCase(request.query)) = <<"t">>
    /\ response.returned = [is_palindrome |-> TRUE, contains_character |-> "a"]

CreateClassified ==
    (IsIdle /\ IsCreate(request')) =>
        LET body == request'.body
        IN  /\ ~Has(body, "value") =>
                  response'.status = 400 /\ stringsDatabase' = stringsDatabase
            /\ (Has(body, "value") /\ body["value"].type # "string") =>
                  response'.status = 422 /\ stringsDatabase' = stringsDatabase
            /\ (HasStringValue(request') /\ ~Stored(stringsDatabase, body["value"].str)) =>
                  /\ response'.status = 201
                  /\ response'.body.value = body["value"].str
                  /\ stringsDatabase' = Append(stringsDatabase, response'.body)

\* C10: POST /strings answers a body with no value field 400, a body whose
\* value is present but not a string 422, and a body whose value is a string
\* (the empty one included) that is not yet stored 201 with the new record;
\* the 400 and 422 cases leave the store unchanged.
C10_CreateClassified == [][CreateClassified]_vars


\* the positions of s whose lowercased character is in [a-z0-9]
KeptPositions(s) ==
    {i \in 1..Len(s) : LET c == toLowerCaseChar(CharAt(s, i)) IN IsLower(c) \/ IsDigit(c)}

\* the k-th kept character of s, lowercased
KeptChar(s, k) ==
    LET kept == KeptPositions(s)
        i == CHOOSE p \in kept : Cardinality({q \in kept : q <= p}) = k
    IN  toLowerCaseChar(CharAt(s, i))

\* what is kept of s reads the same in both directions
ReadsTheSameBothWays(s) ==
    LET n == Cardinality(KeptPositions(s))
    IN  \A k \in 1..n : KeptChar(s, k) = KeptChar(s, n + 1 - k)

\* C11: analyzeString(s).is_palindrome is true iff the lowercased copy of s
\* with every character outside [a-z0-9] removed equals its own reversal; it
\* is true when nothing is left after stripping; "racecar", "A man a plan a
\* canal Panama" and "" are palindromes and "hello" is not.
C11_PalindromeRule ==
    IsCall("analyzeString") =>
        LET s == request.value
            is_palindrome == response.returned.is_palindrome
        IN  /\ is_palindrome \in BOOLEAN
            /\ is_palindrome <=> ReadsTheSameBothWays(s)
            /\ KeptPositions(s) = {} => is_palindrome
            /\ s \in {"racecar", "A man a plan a canal Panama", ""} => is_palindrome
            /\ s = "hello" => ~is_palindrome

C11_Witness ==
    /\ IsCall("analyzeString")
    /\ request.value = "A man a plan a canal Panama"
    /\ response.returned.is_palindrome

\* the lowercased phrase l asks for strings longer than N and shorter than M
\* where no length is both above N and below M
ConflictingLengths(l) ==
    /\ NumbersAfter(l, "longer than ") # {}
    /\ NumbersAfter(l, "shorter than ") # {}
    /\ NumberAt(l, "longer than ", Min(NumbersAfter(l, "longer than "))) + 1
          > NumberAt(l, "shorter than ", Min(NumbersAfter(l, "shorter than "))) - 1

\* C12: a natural-language query whose parsed criteria conflict (a
\* min_length greater than the max_length, as in 'longer than 10 and shorter
\* than 5') is answered 422 Unprocessable Entity, not 200.
C12_ConflictIsUnprocessable ==
    (/\ IsNaturalLanguageRequest(request)
     /\ ConflictingLengths(toLowerCase(request.query["query"])))
        => response.status = 422

\* req asks for the string v with the given method
IsStringRequest(req, method, v) ==
    /\ req.op = "http"
    /\ req.method = method
    /\ req.path = StringPath(v)

\* the store db without the record of v
Without(db, v) == SelectSeq(db, LAMBDA item : item.value # v)

\* a step that answers a request for one string, or changes the store, does
\* what the lifecycle of v says
Lifecycle(v) ==
    /\ (IsIdle /\ IsStringRequest(request', "GET", v)) =>
          /\ stringsDatabase' = stringsDatabase
          /\ IF Stored(stringsDatabase, v)
             THEN /\ response'.status = 200
                  /\ \E i \in 1..Len(stringsDatabase) :
                        /\ stringsDatabase[i].value = v
                        /\ response'.body = stringsDatabase[i]
             ELSE response'.status = 404
    /\ (IsIdle /\ IsStringRequest(request', "DELETE", v)) =>
          IF Stored(stringsDatabase, v)
          THEN /\ response'.status = 204
               /\ stringsDatabase' = Without(stringsDatabase, v)
               /\ Len(stringsDatabase') = Len(stringsDatabase) - 1
               /\ Dispatch(Request("POST", <<"strings">>, <<>>,
                                   Put(<<>>, "value", JsonString(v))),
                           stringsDatabase', now').status = 201
          ELSE /\ response'.status = 404
               /\ stringsDatabase' = stringsDatabase
    /\ (IsIdle /\ request'.op = "http" /\ request'.method = "GET") =>
          stringsDatabase' = stringsDatabase

\* the store holds v exactly while a POST of v has succeeded and no DELETE
\* of v has succeeded since: only those two steps change whether v is stored
StoredByHistory(v) ==
    /\ (~Stored(stringsDatabase, v) /\ Stored(stringsDatabase', v)) =>
          /\ IsCreate(request') /\ HasStringValue(request')
          /\ request'.body["value"].str = v
          /\ response'.status = 201
    /\ (Stored(stringsDatabase, v) /\ ~Stored(stringsDatabase', v)) =>
          /\ IsStringRequest(request', "DELETE", v)
          /\ response'.status = 204
    /\ (IsCreate(request') /\ HasStringValue(request') /\ response'.status = 201
            /\ request'.body["value"].str = v) => Stored(stringsDatabase', v)

\* C13: GET /strings/v returns 200 with the stored record iff a POST of v has
\* succeeded and no DELETE of v has succeeded since, and 404 otherwise;
\* DELETE /strings/v returns 204 and removes exactly that record when it is
\* stored, and 404 leaving the store unchanged when it is not; after a
\* successful DELETE of v a new POST of v gets 201; GET requests never change
\* the store.
C13_StringLifecycle ==
    [][\A v \in ServerValues \cup PathValues : Lifecycle(v) /\ StoredByHistory(v)]_vars

====
